---- MODULE Spec2Model ----
(***************************************************************************)
(* A model of the fpDSP library: the circular SampleBuffer of samples.h /  *)
(* samples.cpp, its use from the ADC interrupt, and the fixed point and    *)
(* binary angle macros of DSP.h.                                           *)
(***************************************************************************)
EXTENDS Integers, Sequences, FiniteSets, TLC

VARIABLES
    sb,       \* the SampleBuffer: [buff, in, out]
    buf,      \* the caller's Q_15 buffer of the last call, as the call left it
    call,     \* the last call: [op, count, ret]
    pushed,   \* every sample stored by a push, oldest first
    popped,   \* every sample handed out by a pop, oldest first
    calls,    \* number of calls made so far
    wave,     \* which input signal the run acquires
    pc,       \* position of the main thread inside SampleBuffer_popAllOrNothing
    loc,      \* the locals of that call: [count, in, tmp, i], and pops, the
              \* number of samples delivered before the call
    opA,      \* first operand of Q15_mult
    opB,      \* second operand of Q15_mult
    prod,     \* Q15_mult(opA, opB)
    x32,      \* the argument of Q15_sat, a signed 32 bit number
    sat,      \* [once |-> Q15_sat(x32), twice |-> Q15_sat(Q15_sat(x32))]
    angle,    \* a BAM16 angle
    quad,     \* what the quadrant tests of DSP.h answer for angle
    freq,     \* [hz, rate, inc]: a FREQUENCY_HZtoBAM16_PER_SAMPLE conversion
    conv,     \* a BAM8 and a BAM16 angle and their conversions
    degs,     \* [d, same, up, down]: DEG2BAM16 of d, d + 360 and d - 360
    mac,      \* the call of Q15_MAC in progress: [pat, count, i, acc, pc]
    reading,  \* [r, isr, poll]: a reading and the sample each path makes of it
    acq       \* the acquisition program: getSamples, then the two transfers

bufVars == <<sb, buf, call, pushed, popped, calls, wave, pc, loc>>
multVars == <<opA, opB, prod>>
satVars == <<x32, sat>>
bamVars == <<angle, quad>>
extVars == <<freq, conv, degs, mac, reading, acq>>
vars == <<bufVars, multVars, satVars, bamVars, extVars>>

\* what the buffer models leave alone
notBufVars == <<multVars, satVars, bamVars, extVars>>

----------------------------------------------------------------------------
(* Bounds of the exploration *)

\* calls made in one run of the sequential buffer model
MaxCalls == 4
\* samples the interrupt handler acquires in one run
MaxIsrPushes == 258
\* calls of SampleBuffer_popAllOrNothing the main thread makes in one run
MaxPopCalls == 2
\* distance between two successive samples of the ramp signals
RampStep == 257
\* distance between two successive operands of the Q15_mult operand grid
GridStep == 1361
\* how far around each clamping bound the arguments of Q15_sat are taken
NearSat == 40

----------------------------------------------------------------------------
(* Integer conversions of the C code *)

SAMPLE_BUFFER_SIZE == 256

\* conversion to uint8_t
U8(x) == x % 256

\* conversion to uint16_t
U16(x) == x % 65536

\* conversion of a uint16_t to Q_15 (int16_t): the same 16 bits, read as
\* two's complement
ToQ15Unsigned(u) == u
ToQ15(u) == IF u >= 32768 THEN u - 65536 ELSE u

\* ~x on an int
IntNot(x) == -x - 1

Q15Range == -32768 .. 32767

----------------------------------------------------------------------------
(* samples.cpp: the SampleBuffer *)

Slots == 0 .. (SAMPLE_BUFFER_SIZE - 1)

SampleBuffer_init(s) == [s EXCEPT !.in = 0, !.out = 0]

SampleBuffer_size(s) == U8(s.in - s.out)

SampleBuffer_freeOffByOne(s) == SAMPLE_BUFFER_SIZE - U8(s.in - s.out)
SampleBuffer_free(s) == U8(IntNot(s.in) + s.out)

SampleBuffer_empty(s) == s.in = s.out

\* a test that forgets that in + 1 wraps
SampleBuffer_fullNoWrap(s) == s.in + 1 = s.out
SampleBuffer_full(s) == U8(IntNot(s.in) + s.out) = 0

\* sb->buff[sb->in++]=sample;
SampleBuffer_push(s, sample) ==
    [s EXCEPT !.buff[s.in] = sample, !.in = U8(s.in + 1)]

\* return sb->buff[sb->out++];
SampleBuffer_pop(s) ==
    [sb |-> [s EXCEPT !.out = U8(s.out + 1)], val |-> s.buff[s.out]]

\* The body of the loop of SampleBuffer_popAllOrNothing, iteration i:
\*     *buf++ = SampleBuffer_pop(sb);
\* buf[k] of the code is b[k + 1] here.
PopIteration(st, i) ==
    LET p == SampleBuffer_pop(st.sb)
    IN  [sb |-> p.sb, buf |-> [st.buf EXCEPT ![i + 1] = ToQ15(p.val)]]

\* for( int i=lo; i<hi; ++i) *buf++ = SampleBuffer_pop(sb);
\* The iterations run in the order of the code.  The range is halved, and the
\* first half evaluated before the second is entered (the test on first.sb.out
\* is always true), only to keep the evaluation shallow.
RECURSIVE PopLoop(_, _, _)
PopLoop(st, lo, hi) ==
    IF lo >= hi THEN st
    ELSE IF hi = lo + 1 THEN PopIteration(st, lo)
    ELSE LET mid == lo + ((hi - lo) \div 2)
             first == PopLoop(st, lo, mid)
         IN  IF first.sb.out >= 0 THEN PopLoop(first, mid, hi) ELSE first

SampleBuffer_popAllOrNothingLE(s, b, count) ==
    IF SampleBuffer_size(s) <= count
    THEN [sb |-> s, buf |-> b, ret |-> 0]
    ELSE LET r == PopLoop([sb |-> s, buf |-> b], 0, count)
         IN  [sb |-> r.sb, buf |-> r.buf, ret |-> count]
SampleBuffer_popAllOrNothing(s, b, count) ==
    IF SampleBuffer_size(s) < count
    THEN [sb |-> s, buf |-> b, ret |-> 0]
    ELSE LET r == PopLoop([sb |-> s, buf |-> b], 0, count)
         IN  [sb |-> r.sb, buf |-> r.buf, ret |-> count]

\* The body of the loop of SampleBuffer_pushAllOrNothing, iteration i:
\*     SampleBuffer_push(sb, *buf++);
\* the Q_15 read from buf is converted to the uint16_t parameter.
PushIteration(s, b, i) == SampleBuffer_push(s, U16(b[i + 1]))

\* for( int i=lo; i<hi; ++i) SampleBuffer_push(sb, *buf++);
\* halved like PopLoop.
RECURSIVE PushLoop(_, _, _, _)
PushLoop(s, b, lo, hi) ==
    IF lo >= hi THEN s
    ELSE IF hi = lo + 1 THEN PushIteration(s, b, lo)
    ELSE LET mid == lo + ((hi - lo) \div 2)
             first == PushLoop(s, b, lo, mid)
         IN  IF first.in >= 0 THEN PushLoop(first, b, mid, hi) ELSE first

\* a push that counts all SAMPLE_BUFFER_SIZE slots as usable
SampleBuffer_pushAllOrNothingAllSlots(s, b, count) ==
    IF SAMPLE_BUFFER_SIZE - SampleBuffer_size(s) < count
    THEN [sb |-> s, ret |-> 0]
    ELSE [sb |-> PushLoop(s, b, 0, count), ret |-> count]
SampleBuffer_pushAllOrNothing(s, b, count) ==
    IF SampleBuffer_free(s) < count
    THEN [sb |-> s, ret |-> 0]
    ELSE [sb |-> PushLoop(s, b, 0, count), ret |-> count]

----------------------------------------------------------------------------
(* The inputs of the buffer model *)

\* The acquired signal: sample n of waveform w.  The ramps take every Q_15
\* value, negative ones included, and no two samples less than
\* SAMPLE_BUFFER_SIZE apart are equal.
Waves == {"up", "down"}
Signal(w, n) ==
    IF w = "up" THEN ((32768 - 300 + n * RampStep) % 65536) - 32768
                ELSE ((32768 + 300 - n * RampStep) % 65536) - 32768

\* count arguments of the all-or-nothing calls
Counts == {-1, 0, 1, 2, 100, 255, 256, 300}

\* what an unwritten cell of a caller's buffer or of buff holds
Unwritten == 21845

\* the caller's buffer handed to a call with this count
BufLen(count) == IF count > 0 THEN count ELSE 0
SourceBuf(w, from, count) ==
    [k \in 1 .. BufLen(count) |-> Signal(w, from + k - 1)]
DestBuf(count) == [k \in 1 .. BufLen(count) |-> Unwritten]

SeqOfBuf(b, n) == [k \in 1 .. n |-> b[k]]

----------------------------------------------------------------------------
(* DSP.h: fixed point math *)

Q15_ZERO == 0
Q15_ONE == 32767

\* The two 16 bit halves of the two's complement pattern of an int32_t
Lo16(x) == x % 65536
Hi16(x) == ((x - Lo16(x)) \div 65536) % 65536

\* the int32_t whose pattern has these halves
FromHalves(hi, lo) == (IF hi >= 32768 THEN hi - 65536 ELSE hi) * 65536 + lo

Pow2(n) == IF n = 0 THEN 1 ELSE 2 ^ n

\* x >> n on an int32_t, 0 < n <= 16: every bit moves n places down and the
\* sign bit fills the n places on top
ShiftRight32(x, n) ==
    LET hi == Hi16(x)
        lo == Lo16(x)
        fill == IF hi >= 32768 THEN (Pow2(n) - 1) * Pow2(16 - n) ELSE 0
    IN  FromHalves((hi \div Pow2(n)) + fill,
                   (lo \div Pow2(n)) + (hi % Pow2(n)) * Pow2(16 - n))

\* #define Q15_mult(A,B) ((((int32_t)(A))*((int32_t)(B)))>>15)
Q15_multTowardZero(A, B) ==
    IF A * B < 0 THEN -((-(A * B)) \div 32768) ELSE (A * B) \div 32768
Q15_multShift16(A, B) == ShiftRight32(A * B, 16)
Q15_multShift14(A, B) == ShiftRight32(A * B, 14)
Q15_mult(A, B) == ShiftRight32(A * B, 15)

\* Arduino's constrain(amt,low,high):
\*     ((amt)<(low)?(low):((amt)>(high)?(high):(amt)))
constrain(amt, low, high) ==
    IF amt < low THEN low ELSE IF amt > high THEN high ELSE amt

\* #define Q15_sat(X) constrain(X, -Q15_ONE, Q15_ONE)
Q15_satInt16(X) == constrain(X, -Q15_ONE - 1, Q15_ONE)
Q15_sat(X) == constrain(X, -Q15_ONE, Q15_ONE)

----------------------------------------------------------------------------
(* DSP.h: BAM16 quadrant tests *)

\* a & b on unsigned numbers
RECURSIVE BitAnd(_, _)
BitAnd(a, b) ==
    IF a = 0 \/ b = 0 THEN 0
    ELSE (a % 2) * (b % 2) + 2 * BitAnd(a \div 2, b \div 2)

BAM16_90_DEGREES == 16384

\* #define BAM16_Quad4(X) (0xC000U==((X)&0xC000U))
BAM16_Quad4(X) == 49152 = BitAnd(X, 49152)
\* #define BAM16_Quad3(X) (0x8000U==((X)&0xC000U))
BAM16_Quad3(X) == 32768 = BitAnd(X, 49152)
\* #define BAM16_Quad2(X) (0x4000U==((X)&0xC000U))
BAM16_Quad2(X) == 16384 = BitAnd(X, 49152)
\* #define BAM16_Quad1(X) (0x0000U==((X)&0xC000U))
BAM16_Quad1(X) == 0 = BitAnd(X, 49152)

\* #define BAM16_Quad12(X) (!((X)&0x8000U))
BAM16_Quad12(X) == BitAnd(X, 32768) = 0
\* #define BAM16_Quad13(X) (!((X)&0x4000U))
BAM16_Quad13(X) == BitAnd(X, 16384) = 0
\* #define BAM16_Quad34(X) (!BAM16_Quad12(X))
BAM16_Quad34(X) == ~BAM16_Quad12(X)
\* #define BAM16_Quad24(X) (!BAM16_Quad13(X))
BAM16_Quad24(X) == ~BAM16_Quad13(X)
\* #define BAM16_Quad23(X) BAM16_Quad12((X)-0x4000U)
\* the subtraction is unsigned and wraps; bit 15 of the difference is the
\* same for a 16 bit and for a 32 bit unsigned int
BAM16_Quad23Plus(X) == BAM16_Quad12(U16(X + 16384))
BAM16_Quad23(X) == BAM16_Quad12(U16(X - 16384))
\* #define BAM16_Quad14(X) BAM16_Quad12((X)+0x4000U)
BAM16_Quad14(X) == BAM16_Quad12(U16(X + 16384))

----------------------------------------------------------------------------
(* The inputs of the arithmetic models *)

Q15Corners ==
    {-32768, -32767, -32766, -16385, -16384, -16383, -3, -2, -1, 0,
     1, 2, 3, 16383, 16384, 16385, 32766, 32767}

Q15Samples ==
    Q15Corners \cup {k * GridStep - 32768 : k \in 0 .. (65535 \div GridStep)}

Int32Min == -2147483647 - 1
Int32Max == 2147483647

Int32Samples ==
    {Int32Min, Int32Min + 1, -65536, -1, 0, 1, 65536, Int32Max - 1, Int32Max}
        \cup ((-Q15_ONE - NearSat) .. (-Q15_ONE + NearSat))
        \cup ((Q15_ONE - NearSat) .. (Q15_ONE + NearSat))

Saturated(x) == [once |-> Q15_sat(x), twice |-> Q15_sat(Q15_sat(x))]

Quadrants(X) ==
    [q1 |-> BAM16_Quad1(X), q2 |-> BAM16_Quad2(X),
     q3 |-> BAM16_Quad3(X), q4 |-> BAM16_Quad4(X),
     q12 |-> BAM16_Quad12(X), q34 |-> BAM16_Quad34(X),
     q13 |-> BAM16_Quad13(X), q24 |-> BAM16_Quad24(X),
     q23 |-> BAM16_Quad23(X), q14 |-> BAM16_Quad14(X)]

IdleMult == opA = 0 /\ opB = 0 /\ prod = 0
IdleSat == x32 = 0 /\ sat = [once |-> 0, twice |-> 0]
IdleBam == angle = 0 /\ quad = [q1 |-> TRUE]
IdleFreq == freq = [hz |-> 0, rate |-> 1, inc |-> 0]
IdleConv == conv = [v |-> 0]
IdleDegs == degs = [d |-> 0]
IdleMac == mac = [pc |-> "none"]
IdleAdc == reading = [r |-> 0]
IdleAcq == acq = [pc |-> "none"]
IdleExt == IdleFreq /\ IdleConv /\ IdleDegs /\ IdleMac /\ IdleAdc /\ IdleAcq
IdleArith == IdleMult /\ IdleSat /\ IdleBam /\ IdleExt
IdleBuf ==
    /\ sb = [in |-> 0, out |-> 0]
    /\ buf = << >>
    /\ call = [op |-> "none"]
    /\ pushed = << >>
    /\ popped = << >>
    /\ calls = 0
    /\ wave = "up"
    /\ pc = "none"
    /\ loc = [count |-> 0]

----------------------------------------------------------------------------
(* The sequential buffer model: calls made one after another *)

IdleIsr == pc = "none" /\ loc = [count |-> 0, in |-> 0, tmp |-> 0, i |-> 0, pops |-> 0]

InitBuf ==
    /\ \E g \in {0, Unwritten} :
          sb = SampleBuffer_init([buff |-> [k \in Slots |-> g], in |-> 0, out |-> 0])
    /\ buf = << >>
    /\ call = [op |-> "init", count |-> 0, ret |-> 0]
    /\ pushed = << >>
    /\ popped = << >>
    /\ calls = 0
    /\ wave \in Waves

Init == InitBuf /\ IdleIsr /\ IdleArith

Push ==
    /\ calls < MaxCalls
    /\ LET sample == Signal(wave, Len(pushed))
       IN  /\ sb' = SampleBuffer_push(sb, U16(sample))
           /\ pushed' = Append(pushed, sample)
    /\ buf' = << >>
    /\ call' = [op |-> "push", count |-> 1, ret |-> 0]
    /\ calls' = calls + 1
    /\ UNCHANGED <<popped, wave, pc, loc>>
    /\ UNCHANGED notBufVars

Pop ==
    /\ calls < MaxCalls
    /\ LET p == SampleBuffer_pop(sb)
       IN  /\ sb' = p.sb
           /\ popped' = Append(popped, ToQ15(p.val))
           /\ call' = [op |-> "pop", count |-> 1, ret |-> p.val]
    /\ buf' = << >>
    /\ calls' = calls + 1
    /\ UNCHANGED <<pushed, wave, pc, loc>>
    /\ UNCHANGED notBufVars

PushAllOrNothing ==
    /\ calls < MaxCalls
    /\ \E count \in Counts :
          LET src == SourceBuf(wave, Len(pushed), count)
              r == SampleBuffer_pushAllOrNothing(sb, src, count)
          IN  /\ sb' = r.sb
              /\ buf' = src
              /\ call' = [op |-> "pushAllOrNothing", count |-> count, ret |-> r.ret]
              /\ pushed' = IF r.ret > 0 THEN pushed \o SeqOfBuf(src, r.ret)
                                        ELSE pushed
    /\ calls' = calls + 1
    /\ UNCHANGED <<popped, wave, pc, loc>>
    /\ UNCHANGED notBufVars

PopAllOrNothing ==
    /\ calls < MaxCalls
    /\ \E count \in Counts :
          LET r == SampleBuffer_popAllOrNothing(sb, DestBuf(count), count)
          IN  /\ sb' = r.sb
              /\ buf' = r.buf
              /\ call' = [op |-> "popAllOrNothing", count |-> count, ret |-> r.ret]
              /\ popped' = IF r.ret > 0 THEN popped \o SeqOfBuf(r.buf, r.ret)
                                        ELSE popped
    /\ calls' = calls + 1
    /\ UNCHANGED <<pushed, wave, pc, loc>>
    /\ UNCHANGED notBufVars

Next == Push \/ Pop \/ PushAllOrNothing \/ PopAllOrNothing

Spec == Init /\ [][Next]_vars

\* only the all-or-nothing calls
NextAllOrNothing == PushAllOrNothing \/ PopAllOrNothing

SpecAllOrNothing == Init /\ [][NextAllOrNothing]_vars

----------------------------------------------------------------------------
(* Properties of the sequential buffer model *)

\* the samples stored and not yet read, oldest first, as Q_15
Stored(s) ==
    [j \in 1 .. SampleBuffer_size(s) |-> ToQ15(s.buff[U8(s.out + j - 1)])]

IsPrefix(p, q) ==
    /\ Len(p) <= Len(q)
    /\ \A j \in 1 .. Len(p) : p[j] = q[j]

\* C1: SampleBuffer_popAllOrNothing with count > 0 is all-or-nothing.  When
\* SampleBuffer_size >= count it removes exactly count samples (out advances
\* by count, in and buff untouched, size drops by count), writes the count
\* oldest stored samples to buf[0..count-1] in order and returns count;
\* otherwise it returns 0 and leaves in, out, buff and buf as they were.
C1_PopAllOrNothing ==
    [][(call'.op = "popAllOrNothing" /\ call'.count > 0) =>
         LET n == call'.count
         IN  IF SampleBuffer_size(sb) >= n
             THEN /\ call'.ret = n
                  /\ sb'.out = U8(sb.out + n)
                  /\ sb'.in = sb.in
                  /\ sb'.buff = sb.buff
                  /\ SampleBuffer_size(sb') = SampleBuffer_size(sb) - n
                  /\ DOMAIN buf' = 1 .. n
                  /\ \A k \in 0 .. (n - 1) : buf'[k + 1] = Stored(sb)[k + 1]
             ELSE /\ call'.ret = 0
                  /\ sb' = sb
                  /\ buf' = DestBuf(n)]_vars

\* C1 witness: a pop of 100 samples that succeeded across the wrap of out
\* and delivered negative and positive samples.
C1_Witness ==
    /\ call.op = "popAllOrNothing"
    /\ call.count = 100
    /\ call.ret = 100
    /\ sb.out < 100
    /\ \E j \in 1 .. 100 : buf[j] < 0
    /\ \E j \in 1 .. 100 : buf[j] > 0

\* C2: from SampleBuffer_init, under any sequence of all-or-nothing pushes and
\* pops, the samples delivered by the successful pops are a prefix of the
\* samples accepted by the successful pushes (same Q_15 values, same order),
\* and the accepted samples not yet delivered are exactly the stored ones.
C2_FifoPrefix ==
    /\ IsPrefix(popped, pushed)
    /\ pushed = popped \o Stored(sb)

\* C2 witness: more than SAMPLE_BUFFER_SIZE samples went through the buffer,
\* negative and positive ones among them.
C2_Witness ==
    /\ Len(popped) > SAMPLE_BUFFER_SIZE
    /\ \E j \in 1 .. Len(popped) : popped[j] < 0
    /\ \E j \in 1 .. Len(popped) : popped[j] > 0

\* C4: SampleBuffer_pushAllOrNothing with count > 0 is all-or-nothing.  When
\* (SAMPLE_BUFFER_SIZE - 1) - size >= count it appends buf[0..count-1] in
\* order behind the stored samples, overwrites no unread sample and returns
\* count; otherwise it returns 0 and leaves in, out and buff as they were.
C4_PushAllOrNothing ==
    [][(call'.op = "pushAllOrNothing" /\ call'.count > 0) =>
         LET n == call'.count
         IN  IF (SAMPLE_BUFFER_SIZE - 1) - SampleBuffer_size(sb) >= n
             THEN /\ call'.ret = n
                  /\ sb'.in = U8(sb.in + n)
                  /\ sb'.out = sb.out
                  /\ Stored(sb') = Stored(sb) \o buf'
                  /\ \A j \in 0 .. (SampleBuffer_size(sb) - 1) :
                        sb'.buff[U8(sb.out + j)] = sb.buff[U8(sb.out + j)]
             ELSE /\ call'.ret = 0
                  /\ sb' = sb]_vars

\* C4 witness: a push of 100 samples that succeeded across the wrap of in,
\* behind samples that were still unread.
C4_Witness ==
    /\ call.op = "pushAllOrNothing"
    /\ call.count = 100
    /\ call.ret = 100
    /\ sb.in < 100
    /\ SampleBuffer_size(sb) > 100

\* C5: after SampleBuffer_init and any sequence of pushes and pops,
\* SampleBuffer_size is the number of samples pushed and not yet popped.
C5_SizeIsPushedMinusPopped ==
    SampleBuffer_size(sb) = Len(pushed) - Len(popped)

----------------------------------------------------------------------------
(* samples.h, ADC_StreamSetup: the buffer filled from the ADC interrupt    *)
(*     ISR (ADC_vect) { SampleBuffer_push(&mySampleBuffer,                 *)
(*                                        ADC_readCurrentSample()); }      *)
(* while the main thread drains it with SampleBuffer_popAllOrNothing.      *)

\* a conversion that fills the 16 bits and leaves no headroom
ADC_readCurrentSampleShift6(adc) == ToQ15(U16(U16(adc - 512) * 64))

\* return (ADC - 0x0200) << 4;  with the 10 bit conversion result in ADC:
\* unsigned 16 bit arithmetic, converted to the Q_15 returned
ADC_readCurrentSample(adc) == ToQ15(U16(U16(adc - 512) * 16))

\* the conversion result at the n-th interrupt
AdcReading(w, n) ==
    IF w = "up" THEN (n * RampStep) % 1024
                ELSE (1023 - n * RampStep) % 1024

\* count arguments of the main thread's calls
IsrCounts == {1, 2}

InitIsr ==
    /\ InitBuf
    /\ wave = "up"
    /\ sb.buff[0] = Unwritten
    /\ pc = "idle"
    /\ loc = [count |-> 0, in |-> 0, tmp |-> 0, i |-> 0, pops |-> 0]
    /\ IdleArith

\* The interrupt: runs to completion between any two steps of the main thread.
Isr ==
    /\ Len(pushed) < MaxIsrPushes
    /\ LET sample == ADC_readCurrentSample(AdcReading(wave, Len(pushed)))
       IN  /\ sb' = SampleBuffer_push(sb, U16(sample))
           /\ pushed' = Append(pushed, sample)
    /\ UNCHANGED <<buf, call, popped, calls, wave, pc, loc>>
    /\ UNCHANGED notBufVars

\* main calls SampleBuffer_popAllOrNothing(sb, buf, count)
MainCall ==
    /\ pc = "idle"
    /\ calls < MaxPopCalls
    /\ \E count \in IsrCounts :
          /\ loc' = [count |-> count, in |-> 0, tmp |-> 0, i |-> 0,
                     pops |-> Len(popped)]
          /\ buf' = DestBuf(count)
          /\ call' = [op |-> "call", count |-> count, ret |-> 0]
    /\ calls' = calls + 1
    /\ pc' = "size_in"
    /\ UNCHANGED <<sb, pushed, popped, wave>>
    /\ UNCHANGED notBufVars

\* SampleBuffer_size: uint8_t tmp = sb->in - sb->out;  the load of in
MainLoadIn ==
    /\ pc = "size_in"
    /\ loc' = [loc EXCEPT !.in = sb.in]
    /\ pc' = "size_out"
    /\ UNCHANGED <<sb, buf, call, pushed, popped, calls, wave>>
    /\ UNCHANGED notBufVars

\* SampleBuffer_size: the load of out and the subtraction; the loaded in is
\* not used again
MainLoadOut ==
    /\ pc = "size_out"
    /\ loc' = [loc EXCEPT !.tmp = U8(loc.in - sb.out), !.in = 0]
    /\ pc' = "test"
    /\ UNCHANGED <<sb, buf, call, pushed, popped, calls, wave>>
    /\ UNCHANGED notBufVars

\* if (SampleBuffer_size( sb ) < count) return 0;  tmp is gone once
\* SampleBuffer_size has returned and its value has been compared
MainTest ==
    /\ pc = "test"
    /\ IF loc.tmp < loc.count
       THEN /\ call' = [op |-> "popAllOrNothing", count |-> loc.count, ret |-> 0]
            /\ pc' = "idle"
       ELSE /\ call' = call
            /\ pc' = "loop"
    /\ loc' = [loc EXCEPT !.tmp = 0]
    /\ UNCHANGED <<sb, buf, pushed, popped, calls, wave>>
    /\ UNCHANGED notBufVars

\* for( int i=0; i<count; ++i) *buf++ = SampleBuffer_pop(sb);  return count;
MainLoop ==
    /\ pc = "loop"
    /\ IF loc.i < loc.count
       THEN LET st == PopIteration([sb |-> sb, buf |-> buf], loc.i)
            IN  /\ sb' = st.sb
                /\ buf' = st.buf
                /\ popped' = Append(popped, st.buf[loc.i + 1])
                /\ loc' = [loc EXCEPT !.i = loc.i + 1]
                /\ UNCHANGED <<call, pc>>
       ELSE /\ call' = [op |-> "popAllOrNothing", count |-> loc.count,
                        ret |-> loc.count]
            /\ pc' = "idle"
            /\ UNCHANGED <<sb, buf, popped, loc>>
    /\ UNCHANGED <<pushed, calls, wave>>
    /\ UNCHANGED notBufVars

NextIsr == Isr \/ MainCall \/ MainLoadIn \/ MainLoadOut \/ MainTest \/ MainLoop

SpecIsr == InitIsr /\ [][NextIsr]_vars

\* C3: with the interrupt handler pushing between the steps of the main
\* thread's SampleBuffer_popAllOrNothing, what the pops delivered so far is
\* the oldest part of what was acquired, in acquisition order, and a pop that
\* returned 0 delivered nothing.
C3_IsrFifo ==
    /\ IsPrefix(popped, pushed)
    /\ (call.op = "popAllOrNothing" /\ call.ret = 0) => Len(popped) = loc.pops

----------------------------------------------------------------------------
(* The model of Q15_mult: the macro applied to operands of the grid *)

InitMult ==
    /\ opA = Q15_ZERO
    /\ opB = Q15_ZERO
    /\ prod = Q15_mult(Q15_ZERO, Q15_ZERO)
    /\ IdleBuf /\ IdleSat /\ IdleBam /\ IdleExt

MultNewA ==
    /\ \E A \in Q15Samples :
          /\ opA' = A
          /\ prod' = Q15_mult(A, opB)
    /\ UNCHANGED <<opB, bufVars, satVars, bamVars, extVars>>

MultNewB ==
    /\ \E B \in Q15Samples :
          /\ opB' = B
          /\ prod' = Q15_mult(opA, B)
    /\ UNCHANGED <<opA, bufVars, satVars, bamVars, extVars>>

NextMult == MultNewA \/ MultNewB

SpecMult == InitMult /\ [][NextMult]_vars

\* C6: Q15_mult(A, B) is floor(A*B / 32768): the largest integer whose
\* multiple of 32768 does not exceed the product, also for negative products.
C6_MultIsFloor ==
    /\ prod * 32768 <= opA * opB
    /\ opA * opB < (prod + 1) * 32768

\* C6 witness: a negative product that is no multiple of 32768, rounded down.
C6_Witness ==
    /\ opA = -3
    /\ opB = 16385
    /\ prod = -2

\* C7: Q15_mult(Q15_ONE, x) differs from x by at most one, and
\* Q15_mult(Q15_ONE, Q15_ONE) is Q15_ONE or Q15_ONE - 1.
C7_MultByOne ==
    opA = Q15_ONE =>
        /\ prod - opB \in {-1, 0, 1}
        /\ opB = Q15_ONE => prod \in {Q15_ONE, Q15_ONE - 1}

\* C7 witness: Q15_ONE times Q15_ONE gave Q15_ONE - 1.
C7_Witness ==
    /\ opA = Q15_ONE
    /\ opB = Q15_ONE
    /\ prod = Q15_ONE - 1

\* C8 as claimed: for all Q_15 operands Q15_mult(A, B) is inside the Q_15
\* range -32768..32767.
C8_ProductInQ15Range == prod \in Q15Range

\* C8 amended: Q15_mult(A, B) is inside the Q_15 range unless both operands
\* are -32768; for A = B = -32768 it is 32768, which stored in a Q_15 wraps
\* to -32768.
C8_ProductInRangeButCorner ==
    /\ ~(opA = -32768 /\ opB = -32768) => prod \in Q15Range
    /\ (opA = -32768 /\ opB = -32768) =>
            (prod = 32768 /\ ToQ15(U16(prod)) = -32768)

\* C8 witness: the one product that leaves the range.
C8_Witness ==
    /\ opA = -32768
    /\ opB = -32768
    /\ prod = 32768

----------------------------------------------------------------------------
(* The model of Q15_sat: the macro applied to signed 32 bit arguments *)

InitSat ==
    /\ x32 = 0
    /\ sat = Saturated(0)
    /\ IdleBuf /\ IdleMult /\ IdleBam /\ IdleExt

Saturate ==
    /\ \E X \in Int32Samples :
          /\ x32' = X
          /\ sat' = Saturated(X)
    /\ UNCHANGED <<bufVars, multVars, bamVars, extVars>>

NextSat == Saturate

SpecSat == InitSat /\ [][NextSat]_vars

\* C9: Q15_sat(x) lies in [-Q15_ONE, Q15_ONE], is x when x lies there and
\* the nearer bound otherwise, and Q15_sat(Q15_sat(x)) = Q15_sat(x).
C9_Saturation ==
    /\ sat.once \in -32767 .. 32767
    /\ (x32 \in -32767 .. 32767) => sat.once = x32
    /\ x32 > 32767 => sat.once = 32767
    /\ x32 < -32767 => sat.once = -32767
    /\ sat.twice = sat.once

\* C9 witness: the most negative Q_15 was clamped to -Q15_ONE.
C9_Witness ==
    /\ x32 = -32768
    /\ sat.once = -32767
    /\ sat.twice = -32767

----------------------------------------------------------------------------
(* The model of the quadrant tests: every BAM16 angle, turned by wrapping  *)
(* additions                                                               *)

InitBam ==
    /\ angle = 0
    /\ quad = Quadrants(0)
    /\ IdleBuf /\ IdleMult /\ IdleSat /\ IdleExt

\* angle += d on a BAM16
Turn ==
    /\ \E d \in {1, BAM16_90_DEGREES, 65535} :
          /\ angle' = U16(angle + d)
          /\ quad' = Quadrants(U16(angle + d))
    /\ UNCHANGED <<bufVars, multVars, satVars, extVars>>

NextBam == Turn

SpecBam == InitBam /\ [][NextBam]_vars

\* C10: exactly one of Quad1..Quad4 holds, it is the one named by bits 15 and
\* 14 of the angle (Quad1 = 0x0000..0x3FFF, Quad2 = 0x4000..0x7FFF,
\* Quad3 = 0x8000..0xBFFF, Quad4 = 0xC000..0xFFFF), and each union test
\* equals the disjunction of its two quadrants.
C10_Quadrants ==
    /\ quad.q1 <=> (angle \div 16384 = 0)
    /\ quad.q2 <=> (angle \div 16384 = 1)
    /\ quad.q3 <=> (angle \div 16384 = 2)
    /\ quad.q4 <=> (angle \div 16384 = 3)
    /\ Cardinality({q \in {"q1", "q2", "q3", "q4"} : quad[q]}) = 1
    /\ quad.q12 <=> (quad.q1 \/ quad.q2)
    /\ quad.q34 <=> (quad.q3 \/ quad.q4)
    /\ quad.q13 <=> (quad.q1 \/ quad.q3)
    /\ quad.q24 <=> (quad.q2 \/ quad.q4)
    /\ quad.q23 <=> (quad.q2 \/ quad.q3)
    /\ quad.q14 <=> (quad.q1 \/ quad.q4)

\* C10 witness: the boundary 0xC000 was classified: quadrant 4, in Quad14 and
\* Quad34 and Quad24, not in Quad23.
C10_Witness ==
    /\ angle = 49152
    /\ quad.q4 /\ quad.q14 /\ quad.q34 /\ quad.q24
    /\ ~quad.q23 /\ ~quad.q12 /\ ~quad.q13

----------------------------------------------------------------------------
(* FREQUENCY_HZtoBAM16_PER_SAMPLE of DSP.h *)

\* distance between two successive frequencies of the frequency grid
FreqStep == 97

\* (uint32_t)(X) << 16, as the two 16 bit halves of the unsigned 32 bit
\* result: the low half of X moves up and whatever was above it is lost
U32ShiftLeft16(X) == [hi |-> U16(X), lo |-> 0]

\* the unsigned 32 bit division n / d of C, for 0 < d <= 32767, by long
\* division over the two halves of n; the quotient is given as halves too
U32Div(n, d) ==
    [hi |-> n.hi \div d, lo |-> ((n.hi % d) * 65536 + n.lo) \div d]

\* the cast (BAM16) of an unsigned 32 bit number keeps its low half
BAM16ofU32(n) == n.lo

FREQUENCY_HZtoBAM16_PER_SAMPLE(HZ, SAMPLE_RATE) ==
    BAM16ofU32(U32Div(U32ShiftLeft16(HZ), SAMPLE_RATE))

\* round(HZ * 2^16 / SAMPLE_RATE) reduced modulo 2^16, halves rounding up.
\* The whole turns HZ \div SAMPLE_RATE vanish in the reduction.
RoundedIncrement(HZ, SAMPLE_RATE) ==
    LET n == (HZ % SAMPLE_RATE) * 65536
        down == n \div SAMPLE_RATE
        rest == n % SAMPLE_RATE
    IN  U16(IF 2 * rest >= SAMPLE_RATE THEN down + 1 ELSE down)

FreqHz ==
    {0, 1, 2, 249, 250, 251, 440, 1000, 4000, 8000, 32767, 32768, 65534, 65535}
        \cup {k * FreqStep : k \in 0 .. (65535 \div FreqStep)}

FreqRates == {1, 2, 3, 7, 45, 1000, 8000, 9600, 22050, 32767}

InitFreq ==
    /\ freq = [hz |-> 0, rate |-> 1, inc |-> FREQUENCY_HZtoBAM16_PER_SAMPLE(0, 1)]
    /\ IdleBuf /\ IdleMult /\ IdleSat /\ IdleBam
    /\ IdleConv /\ IdleDegs /\ IdleMac /\ IdleAdc /\ IdleAcq

FreqNewHz ==
    /\ \E h \in FreqHz :
          freq' = [hz |-> h, rate |-> freq.rate,
                   inc |-> FREQUENCY_HZtoBAM16_PER_SAMPLE(h, freq.rate)]
    /\ UNCHANGED <<bufVars, multVars, satVars, bamVars>>
    /\ UNCHANGED <<conv, degs, mac, reading, acq>>

FreqNewRate ==
    /\ \E r \in FreqRates :
          freq' = [hz |-> freq.hz, rate |-> r,
                   inc |-> FREQUENCY_HZtoBAM16_PER_SAMPLE(freq.hz, r)]
    /\ UNCHANGED <<bufVars, multVars, satVars, bamVars>>
    /\ UNCHANGED <<conv, degs, mac, reading, acq>>

NextFreq == FreqNewHz \/ FreqNewRate

SpecFreq == InitFreq /\ [][NextFreq]_vars

\* C11: the increment is round(HZ * 2^16 / SAMPLE_RATE) reduced modulo 2^16,
\* and 250 Hz at 1000 samples a second is a quarter of a turn a sample.
C11_FrequencyIsRounded ==
    /\ freq.inc = RoundedIncrement(freq.hz, freq.rate)
    /\ (freq.hz = 250 /\ freq.rate = 1000) => freq.inc = BAM16_90_DEGREES

----------------------------------------------------------------------------
(* BAM8toBAM16 and BAM16toBAM8 of DSP.h *)

\* (BAM16)((X) << 8)
BAM8toBAM16(X) == U16(X * 256)

\* a conversion that rounds to the nearest BAM8 instead of dropping the low byte
BAM16toBAM8Nearest(X) == U8((X + 128) \div 256)
\* (BAM8)((X) >> 8)
BAM16toBAM8(X) == U8(X \div 256)

\* The conversions of the BAM16 angle x and of the BAM8 angle v. As x runs
\* over the BAM16 angles its low byte v runs over the BAM8 angles.
Converted(x) ==
    LET v == U8(x)
    IN  [x |-> x, hi8 |-> BAM16toBAM8(x),
         cleared |-> BAM8toBAM16(BAM16toBAM8(x)),
         v |-> v, to16 |-> BAM8toBAM16(v),
         back8 |-> BAM16toBAM8(BAM8toBAM16(v))]

InitConv ==
    /\ conv = Converted(0)
    /\ IdleBuf /\ IdleMult /\ IdleSat /\ IdleBam
    /\ IdleFreq /\ IdleDegs /\ IdleMac /\ IdleAdc /\ IdleAcq

ConvTurn ==
    /\ \E d \in {1, 256, 65535} : conv' = Converted(U16(conv.x + d))
    /\ UNCHANGED <<bufVars, multVars, satVars, bamVars>>
    /\ UNCHANGED <<freq, degs, mac, reading, acq>>

NextConv == ConvTurn

SpecConv == InitConv /\ [][NextConv]_vars

\* C12: BAM8toBAM16(v) is v * 256 and converting it back gives v again;
\* BAM16toBAM8(x) is the high byte of x, so converting x to BAM8 and back
\* gives x with its low 8 bits cleared: truncated, never rounded up.
C12_ByteShift ==
    /\ conv.to16 = conv.v * 256
    /\ conv.back8 = conv.v
    /\ conv.hi8 = conv.x \div 256
    /\ conv.cleared = conv.x - (conv.x % 256)
    /\ conv.cleared <= conv.x

\* C12 witness: 0xFFFF was converted: its BAM8 is 0xFF and going back gives
\* 0xFF00, where rounding up would have wrapped to 0; its low byte 0xFF went
\* to 0xFF00 and back.
C12_Witness ==
    /\ conv.x = 65535
    /\ conv.hi8 = 255 /\ conv.cleared = 65280
    /\ conv.v = 255 /\ conv.to16 = 65280 /\ conv.back8 = 255

----------------------------------------------------------------------------
(* DEG2BAM16 of DSP.h *)

\* the angles converted are -DegSpan .. DegSpan degrees
DegSpan == 720

BAM16_45_DEGREES == BAM16_90_DEGREES \div 2

\* the division a / b of C for b > 0: the quotient is truncated toward zero
CDiv(a, b) == IF a >= 0 THEN a \div b ELSE -((-a) \div b)

\* (BAM16)(((X) * BAM16_45_DEGREES) / 45), the product and the quotient
\* computed in a 32 bit int, which holds them for -262143 <= X <= 262143
DEG2BAM16(X) == U16(CDiv(X * BAM16_45_DEGREES, 45))

FullTurns(d) ==
    [d |-> d, same |-> DEG2BAM16(d),
     up |-> DEG2BAM16(d + 360), down |-> DEG2BAM16(d - 360)]

InitDegs ==
    /\ degs = FullTurns(0)
    /\ IdleBuf /\ IdleMult /\ IdleSat /\ IdleBam
    /\ IdleFreq /\ IdleConv /\ IdleMac /\ IdleAdc /\ IdleAcq

DegsNew ==
    /\ \E d \in (-DegSpan) .. DegSpan : degs' = FullTurns(d)
    /\ UNCHANGED <<bufVars, multVars, satVars, bamVars>>
    /\ UNCHANGED <<freq, conv, mac, reading, acq>>

NextDegs == DegsNew

SpecDegs == InitDegs /\ [][NextDegs]_vars

\* C13: angles a full turn apart map to the same BAM16: DEG2BAM16(d),
\* DEG2BAM16(d + 360) and DEG2BAM16(d - 360) are the same value, and
\* DEG2BAM16 of -360, 0 and 360 is 0x0000.
C13_FullTurnApart ==
    /\ degs.up = degs.same
    /\ degs.down = degs.same
    /\ degs.d \in {-360, 0, 360} => degs.same = 0

----------------------------------------------------------------------------
(* Q15_MAC of DSP.h: declared there, its body is not part of the sources; *)
(* the loop below follows the specification of multiplyAccumulate          *)

\* the longest lists Q15_MAC is called with
MacMaxCount == 256

\* the sum of two signed 32 bit numbers in a Q16_15, wrapping when it does
\* not fit
Add32(x, y) ==
    IF x >= 0 /\ y > Int32Max - x
    THEN Int32Min + ((y - (Int32Max - x)) - 1)
    ELSE IF x < 0 /\ y < Int32Min - x
         THEN Int32Max - (((Int32Min - x) - y) - 1)
         ELSE x + y

\* the operand lists of a call, by name
MacPatterns == {"minmin", "minmax", "maxmin", "maxmax", "flip", "ramp"}

MacCounts == {0, 1, 2, 255, 256, MacMaxCount}

\* a[i] of the list named p
MacA(p, i) ==
    CASE p \in {"minmin", "minmax"} -> -32768
      [] p \in {"maxmin", "maxmax"} -> 32767
      [] p = "flip" -> IF i % 2 = 0 THEN -32768 ELSE 32767
      [] p = "ramp" -> Signal("up", i)

\* b[i] of the list named p
MacB(p, i) ==
    CASE p \in {"minmin", "maxmin"} -> -32768
      [] p \in {"minmax", "maxmax"} -> 32767
      [] p = "flip" -> -32768
      [] p = "ramp" -> Signal("down", i)

InitMac ==
    /\ mac = [pc |-> "idle", pat |-> "minmin", count |-> 0, i |-> 0, acc |-> 0]
    /\ IdleBuf /\ IdleMult /\ IdleSat /\ IdleBam
    /\ IdleFreq /\ IdleConv /\ IdleDegs /\ IdleAdc /\ IdleAcq

\* Q15_MAC(a, b, count) is entered: the accumulator starts at zero
MacCall ==
    /\ mac.pc \in {"idle", "done"}
    /\ \E p \in MacPatterns, c \in MacCounts :
          mac' = [pc |-> "loop", pat |-> p, count |-> c, i |-> 0, acc |-> 0]
    /\ UNCHANGED <<bufVars, multVars, satVars, bamVars>>
    /\ UNCHANGED <<freq, conv, degs, reading, acq>>

\* one more term: the product loses its low 15 bits, then it is added
MacStep ==
    /\ mac.pc = "loop"
    /\ mac.i < mac.count
    /\ mac' = [mac EXCEPT
                 !.acc = Add32(@, Q15_mult(MacA(mac.pat, mac.i), MacB(mac.pat, mac.i))),
                 !.i = @ + 1]
    /\ UNCHANGED <<bufVars, multVars, satVars, bamVars>>
    /\ UNCHANGED <<freq, conv, degs, reading, acq>>

\* all count terms are in: the accumulator is returned as it is
MacReturn ==
    /\ mac.pc = "loop"
    /\ mac.i >= mac.count
    /\ mac' = [mac EXCEPT !.pc = "done"]
    /\ UNCHANGED <<bufVars, multVars, satVars, bamVars>>
    /\ UNCHANGED <<freq, conv, degs, reading, acq>>

NextMac == MacCall \/ MacStep \/ MacReturn

SpecMac == InitMac /\ [][NextMac]_vars

\* the sum of the products a[k] * b[k] / 2^15, rounded down, for lo <= k < hi
RECURSIVE SumOfProducts(_, _, _)
SumOfProducts(p, lo, hi) ==
    IF hi <= lo THEN 0
    ELSE IF hi = lo + 1 THEN (MacA(p, lo) * MacB(p, lo)) \div 32768
    ELSE LET mid == (lo + hi) \div 2
             first == SumOfProducts(p, lo, mid)
         IN  IF first >= Int32Min THEN first + SumOfProducts(p, mid, hi) ELSE first

\* C14: Q15_MAC returns the sum of the Q15 products a[i] * b[i] in a signed
\* 32 bit accumulator without saturating, and for every count up to 256 and
\* operands at the extremes no partial sum and no result leaves the signed
\* 32 bit range: the accumulator always is the exact sum of the products so far.
C14_MacExactSum ==
    mac.pc \in {"loop", "done"} =>
        /\ mac.acc = SumOfProducts(mac.pat, 0, mac.i)
        /\ mac.acc >= -(mac.i * 32768) /\ mac.acc <= mac.i * 32768
        /\ mac.acc >= Int32Min /\ mac.acc <= Int32Max
        /\ mac.pc = "done" => mac.i = mac.count

\* C14 witness: 256 pairs of -32768 * -32768 were accumulated and returned,
\* 256 * 32768 in all.
C14_Witness ==
    /\ mac.pc = "done"
    /\ mac.pat = "minmin"
    /\ mac.count = 256
    /\ mac.acc = 8388608

----------------------------------------------------------------------------
(* samples.cpp: getSamples, and the all-or-nothing transfers run one loop   *)
(* iteration at a time                                                      *)

PERIOD_US_8KHZ == 125

\* An unsigned long is 32 bits wide and kept as its two 16 bit halves.
\* The conversion of an int to unsigned long:
U32OfInt(n) == [hi |-> (n \div 65536) % 65536, lo |-> n % 65536]

\* a + b and a - b of two unsigned longs, modulo 2^32
U32Add(a, b) ==
    [hi |-> (a.hi + b.hi + ((a.lo + b.lo) \div 65536)) % 65536,
     lo |-> (a.lo + b.lo) % 65536]
U32Sub(a, b) ==
    [hi |-> ((a.hi - b.hi) - (IF a.lo < b.lo THEN 1 ELSE 0)) % 65536,
     lo |-> (a.lo - b.lo) % 65536]

\* a < b of two unsigned longs
U32Less(a, b) == a.hi < b.hi \/ (a.hi = b.hi /\ a.lo < b.lo)

\* a sampling period of exactly PERIOD_US_8KHZ refused as well
getSamplesTooFastOrEqual(sampleTime_us) == sampleTime_us <= PERIOD_US_8KHZ
\* if(sampleTime_us < PERIOD_US_8KHZ)
getSamplesTooFast(sampleTime_us) == sampleTime_us < PERIOD_US_8KHZ

\* (analogRead(pin) - 0x200) << 4, computed in int and stored in a Q_15
getSamplesSample(r) == ToQ15(U16((r - 512) * 16))

\* a for loop that never advances its index
NoIncrement(i) == i
\* ++i of the for loops of the transfers
PreIncrement(i) == i + 1

\* what micros() may answer at the start of a run: just after the reset of
\* the board, a little later, and shortly before the counter wraps
AcqBoots == {U32OfInt(0), U32OfInt(60), [hi |-> 65535, lo |-> 65500]}

\* by how much micros() may have advanced between two looks at it
AcqTicks == {4, 64}

\* the arguments of getSamples
AcqCounts == {0, 1, 2, 3}
AcqPeriods == {-1, 0, 124, 125, 126, 250}

\* the count arguments of the transfers
AcqXferCounts == {-1, 0, 1, 2, 255, 256}

InitAcq ==
    /\ \E boot \in AcqBoots :
          acq = [pc |-> "idle", count |-> 0, period |-> 0, micros |-> boot,
                 deltaTime |-> U32OfInt(0), timestamp |-> U32OfInt(0),
                 countDown |-> 0, p |-> 0, reads |-> 0, buf |-> << >>,
                 ret |-> 0, i |-> 0]
    /\ sb = SampleBuffer_init([buff |-> [k \in Slots |-> Unwritten], in |-> 0, out |-> 0])
    /\ buf = << >>
    /\ call = [op |-> "none"]
    /\ pushed = << >>
    /\ popped = << >>
    /\ calls = 0
    /\ wave = "up"
    /\ pc = "none"
    /\ loc = [count |-> 0]
    /\ IdleMult /\ IdleSat /\ IdleBam
    /\ IdleFreq /\ IdleConv /\ IdleDegs /\ IdleMac /\ IdleAdc

\* what the steps of the acquisition program leave alone
notAcqVars ==
    <<buf, call, pushed, popped, calls, wave, pc, loc,
      multVars, satVars, bamVars, freq, conv, degs, mac, reading>>

\* getSamples(pin, buf, count, sampleTime_us) is called; buf has one cell
\* more than count
GetSamplesCall ==
    /\ acq.pc = "idle"
    /\ \E c \in AcqCounts, t \in AcqPeriods :
          acq' = [acq EXCEPT !.pc = "entry", !.count = c, !.period = t,
                             !.buf = DestBuf(c + 1)]
    /\ UNCHANGED <<sb, notAcqVars>>

\* the test of the period and the initialisation of the locals
GetSamplesEntry ==
    /\ acq.pc = "entry"
    /\ IF getSamplesTooFast(acq.period)
       THEN acq' = [acq EXCEPT !.pc = "got", !.ret = 0]
       ELSE LET deltaTime == U32OfInt(acq.period)
            IN  acq' = [acq EXCEPT !.pc = "while",
                                   !.deltaTime = deltaTime,
                                   !.timestamp = U32Sub(acq.micros, deltaTime),
                                   !.countDown = acq.count]
    /\ UNCHANGED <<sb, notAcqVars>>

\* while(countDown--), and return count; when the loop is left
GetSamplesWhile ==
    /\ acq.pc = "while"
    /\ IF acq.countDown # 0
       THEN acq' = [acq EXCEPT !.pc = "wait", !.countDown = @ - 1]
       ELSE acq' = [acq EXCEPT !.pc = "got", !.countDown = @ - 1,
                               !.ret = acq.count]
    /\ UNCHANGED <<sb, notAcqVars>>

\* while((micros()-timestamp) < deltaTime), once, micros() having advanced
\* by dt since it was last looked at
GetSamplesWait(dt) ==
    /\ acq.pc = "wait"
    /\ LET now == U32Add(acq.micros, U32OfInt(dt))
       IN  acq' = [acq EXCEPT
                     !.micros = now,
                     !.pc = IF U32Less(U32Sub(now, acq.timestamp), acq.deltaTime)
                            THEN "wait" ELSE "read"]
    /\ UNCHANGED <<sb, notAcqVars>>

GetSamplesWaitTick == \E dt \in AcqTicks : GetSamplesWait(dt)

GetSamplesWaitNoTick == GetSamplesWait(0)

\* *buf++ = (analogRead(pin) - 0x200) << 4;  timestamp += deltaTime;
\* the conversion takes dt
GetSamplesRead ==
    /\ acq.pc = "read"
    /\ \E dt \in AcqTicks \cup {0} :
          acq' = [acq EXCEPT
                    !.pc = "while",
                    !.buf[acq.p + 1] = getSamplesSample(AdcReading("up", acq.reads)),
                    !.p = @ + 1,
                    !.reads = @ + 1,
                    !.timestamp = U32Add(@, acq.deltaTime),
                    !.micros = U32Add(@, U32OfInt(dt))]
    /\ UNCHANGED <<sb, notAcqVars>>

\* SampleBuffer_pushAllOrNothing(sb, buf, count) is called
PushCall ==
    /\ acq.pc = "idle"
    /\ \E c \in AcqXferCounts :
          acq' = [acq EXCEPT !.pc = "pushTest", !.count = c,
                             !.buf = SourceBuf("up", 0, c)]
    /\ UNCHANGED <<sb, notAcqVars>>

\* if( SampleBuffer_free(sb) < count ) return 0;
PushTest ==
    /\ acq.pc = "pushTest"
    /\ IF SampleBuffer_free(sb) < acq.count
       THEN acq' = [acq EXCEPT !.pc = "pushed", !.ret = 0]
       ELSE acq' = [acq EXCEPT !.pc = "pushLoop", !.i = 0]
    /\ UNCHANGED <<sb, notAcqVars>>

\* one iteration of for( int i=0; i<count; ++i)
PushIter ==
    /\ acq.pc = "pushLoop"
    /\ acq.i < acq.count
    /\ sb' = PushIteration(sb, acq.buf, acq.i)
    /\ acq' = [acq EXCEPT !.i = PreIncrement(@)]
    /\ UNCHANGED notAcqVars

\* return count;
PushReturn ==
    /\ acq.pc = "pushLoop"
    /\ acq.i >= acq.count
    /\ acq' = [acq EXCEPT !.pc = "pushed", !.ret = acq.count]
    /\ UNCHANGED <<sb, notAcqVars>>

\* SampleBuffer_popAllOrNothing(sb, buf, count) is called
PopCall ==
    /\ acq.pc = "pushed"
    /\ \E c \in AcqXferCounts :
          acq' = [acq EXCEPT !.pc = "popTest", !.count = c, !.i = 0,
                             !.buf = DestBuf(c)]
    /\ UNCHANGED <<sb, notAcqVars>>

\* if( SampleBuffer_size(sb) < count ) return 0;
PopTest ==
    /\ acq.pc = "popTest"
    /\ IF SampleBuffer_size(sb) < acq.count
       THEN acq' = [acq EXCEPT !.pc = "done", !.ret = 0]
       ELSE acq' = [acq EXCEPT !.pc = "popLoop", !.i = 0]
    /\ UNCHANGED <<sb, notAcqVars>>

\* one iteration of for( int i=0; i<count; ++i)
PopIter ==
    /\ acq.pc = "popLoop"
    /\ acq.i < acq.count
    /\ LET r == PopIteration([sb |-> sb, buf |-> acq.buf], acq.i)
       IN  /\ sb' = r.sb
           /\ acq' = [acq EXCEPT !.buf = r.buf, !.i = PreIncrement(@)]
    /\ UNCHANGED notAcqVars

\* return count;
PopReturn ==
    /\ acq.pc = "popLoop"
    /\ acq.i >= acq.count
    /\ acq' = [acq EXCEPT !.pc = "done", !.ret = acq.count]
    /\ UNCHANGED <<sb, notAcqVars>>

\* the steps the processor takes by itself once a routine is entered, with
\* micros() advancing
AcqRun ==
    \/ GetSamplesEntry \/ GetSamplesWhile \/ GetSamplesWaitTick \/ GetSamplesRead
    \/ PushTest \/ PushIter \/ PushReturn
    \/ PopTest \/ PopIter \/ PopReturn

NextAcq ==
    \/ GetSamplesCall \/ PushCall \/ PopCall
    \/ GetSamplesWaitNoTick
    \/ AcqRun

SpecAcq == InitAcq /\ [][NextAcq]_vars

\* C15: getSamples returns 0 and writes nothing when sampleTime_us is below
\* 125; otherwise it has made exactly count analog reads when it returns,
\* their samples are in buf[0 .. count-1] in the order read, the cell after
\* them is untouched, and count is returned.
C15_GetSamples ==
    /\ acq.pc \in {"entry", "while", "wait", "read", "got"} =>
          acq.reads <= acq.count
    /\ acq.pc = "got" =>
          IF acq.period < 125
          THEN acq.ret = 0 /\ acq.reads = 0 /\ acq.buf = DestBuf(acq.count + 1)
          ELSE /\ acq.ret = acq.count
               /\ acq.reads = acq.count
               /\ \A k \in 1 .. acq.count :
                     acq.buf[k] = (AdcReading("up", k - 1) - 512) * 16
               /\ acq.buf[acq.count + 1] = Unwritten

\* C15 witness: with a period of exactly 125 microseconds three samples were
\* read and returned, the third being the third reading.
C15_Witness ==
    /\ acq.pc = "got"
    /\ acq.period = 125
    /\ acq.count = 3
    /\ acq.ret = 3
    /\ acq.reads = 3
    /\ acq.buf[3] = (AdcReading("up", 2) - 512) * 16

\* The same program on a processor that keeps running the routine it has
\* entered, with a micros() that keeps advancing.
FairSpecAcq == SpecAcq /\ WF_vars(AcqRun)

\* C20: every sample source routine terminates after a number of steps
\* bounded by count: the transfers return after at most count iterations of
\* their loop, and getSamples with count >= 0 returns after exactly count
\* analog reads (none when the period is refused).
C20_Terminates ==
    /\ [](acq.pc \in {"pushLoop", "pushed", "popLoop", "done"} =>
              acq.i <= BufLen(acq.count))
    /\ [](acq.pc \in {"while", "wait", "read"} => acq.reads <= acq.count)
    /\ (acq.pc = "entry") ~>
          (acq.pc = "got"
              /\ acq.reads = (IF acq.period < 125 THEN 0 ELSE acq.count))
    /\ (acq.pc = "pushTest") ~> (acq.pc = "pushed")
    /\ (acq.pc = "popTest") ~> (acq.pc = "done")

\* C20 witness: a pop of 255 samples has returned after 255 iterations.
C20_Witness ==
    /\ acq.pc = "done"
    /\ acq.count = 255
    /\ acq.ret = 255
    /\ acq.i = 255

----------------------------------------------------------------------------
(* The sample made of a 10 bit conversion result, by the interrupt path     *)
(* (ADC_readCurrentSample) and by the polling path (getSamples)             *)

Sampled(r) ==
    [r |-> r, isr |-> ADC_readCurrentSample(r), poll |-> getSamplesSample(r)]

InitAdc ==
    /\ reading = Sampled(0)
    /\ IdleBuf /\ IdleMult /\ IdleSat /\ IdleBam
    /\ IdleFreq /\ IdleConv /\ IdleDegs /\ IdleMac /\ IdleAcq

AdcConvert ==
    /\ \E r \in 0 .. 1023 : reading' = Sampled(r)
    /\ UNCHANGED <<bufVars, multVars, satVars, bamVars>>
    /\ UNCHANGED <<freq, conv, degs, mac, acq>>

NextAdc == AdcConvert

SpecAdc == InitAdc /\ [][NextAdc]_vars

\* C16: for every reading r in 0..1023 both paths produce the sample
\* (r - 512) * 16: inside -8192..8176, strictly increasing in r, and 0 for
\* r = 512.
C16_SampleScaling ==
    /\ reading.isr = (reading.r - 512) * 16
    /\ reading.poll = reading.isr
    /\ reading.isr >= -8192 /\ reading.isr <= 8176
    /\ reading.r > 0 =>
          /\ ADC_readCurrentSample(reading.r - 1) < reading.isr
          /\ getSamplesSample(reading.r - 1) < reading.poll
    /\ reading.r = 512 => reading.isr = 0

\* C16 witness: the largest reading, 1023, became 8176 on both paths.
C16_Witness ==
    /\ reading.r = 1023
    /\ reading.isr = 8176
    /\ reading.poll = 8176

----------------------------------------------------------------------------
(* The observers of the SampleBuffer and the values the transfers return,  *)
(* in the sequential buffer model                                           *)

\* C17: in every reachable state SampleBuffer_free is
\* (SAMPLE_BUFFER_SIZE - 1) - SampleBuffer_size, both are in 0..255, the
\* buffer is empty exactly when its size is 0 and full exactly when free is
\* 0, never both, and right after SampleBuffer_init it is empty with 255 free.
C17_ObserversAgree ==
    /\ SampleBuffer_free(sb) = (SAMPLE_BUFFER_SIZE - 1) - SampleBuffer_size(sb)
    /\ SampleBuffer_size(sb) \in 0 .. 255
    /\ SampleBuffer_free(sb) \in 0 .. 255
    /\ SampleBuffer_empty(sb) <=> (SampleBuffer_size(sb) = 0)
    /\ SampleBuffer_full(sb) <=> (SampleBuffer_free(sb) = 0)
    /\ ~(SampleBuffer_empty(sb) /\ SampleBuffer_full(sb))
    /\ call.op = "init" => (SampleBuffer_empty(sb) /\ SampleBuffer_free(sb) = 255)

\* C17 witness: a buffer full of 255 undelivered samples whose in index has
\* wrapped below out.
C17_Witness ==
    /\ SampleBuffer_full(sb)
    /\ SampleBuffer_size(sb) = 255
    /\ sb.in < sb.out
    /\ Len(pushed) = Len(popped) + 255

\* C18: for every count, 0 and negative ones included, the value returned
\* by SampleBuffer_pushAllOrNothing and by SampleBuffer_popAllOrNothing is
\* the number of samples transferred, the change of SampleBuffer_size, and
\* is never negative.
C18_ReturnIsTransferred ==
    [][/\ call'.op = "pushAllOrNothing" =>
              /\ call'.ret >= 0
              /\ call'.ret = SampleBuffer_size(sb') - SampleBuffer_size(sb)
       /\ call'.op = "popAllOrNothing" =>
              /\ call'.ret >= 0
              /\ call'.ret = SampleBuffer_size(sb) - SampleBuffer_size(sb')]_vars

\* C19: no transfer of SAMPLE_BUFFER_SIZE (256) or more samples succeeds:
\* such a call returns 0 whatever the buffer holds, and no transfer returns
\* more than 255.
C19_NoTransferOf256 ==
    call.op \in {"pushAllOrNothing", "popAllOrNothing"} =>
        /\ call.count >= 256 => call.ret = 0
        /\ call.ret <= 255
        /\ call.ret > 0 => call.count <= 255

\* C19 witness: a pop of 256 samples was refused although the buffer holds
\* all the 255 samples it can.
C19_Witness ==
    /\ call.op = "popAllOrNothing"
    /\ call.count = 256
    /\ call.ret = 0
    /\ SampleBuffer_size(sb) = 255
    /\ Len(pushed) = 255

====
